---------------------------- MODULE Spec2Model ----------------------------
(***************************************************************************)
(* A model of skylift's WiGLE converter (extras/wigle_to_skylift.py) and   *)
(* of its dataset container (src/models/network.py).                       *)
(*                                                                         *)
(* Three specifications share the module:                                  *)
(*   SpecRssi  calc_geo_rssi / get_geo_distance on pairs of points         *)
(*   SpecMain  one or more runs of main() against an output directory      *)
(*   SpecNet   construction, mutation and querying of a Networks container *)
(*                                                                         *)
(* Geometry.  geopy's geodesic is a library function; it is stood in for   *)
(* by the taxicab distance on a planar grid whose unit is half a metre, so *)
(* that distances just above and just below every threshold of the RSSI    *)
(* step function exist.  A point is <<lat, lon>>.                          *)
(***************************************************************************)
EXTENDS Integers, Sequences, FiniteSets, TLC

VARIABLES
    \* ---- calc_geo_rssi ----
    p1, p2, rssi,
    \* ---- main(): inputs ----
    argv, infile, today, fs,
    \* ---- main(): locals ----
    pc, target_lat, target_long, nets_per_of, data, sl_meta, sl_networks,
    n_nets, i, c,
    \* ---- main(): history ----
    fs0, clears, written, runs, prev,
    \* ---- Networks ----
    npc, meta, networks, filename, n_wifi, n_bt, wifi, bt,
    supplied, call, result

rssiVars == <<p1, p2, rssi>>
mainVars == <<argv, infile, today, fs, pc, target_lat, target_long, nets_per_of,
              data, sl_meta, sl_networks, n_nets, i, c, fs0, clears, written,
              runs, prev>>
netVars  == <<npc, meta, networks, filename, n_wifi, n_bt, wifi, bt,
              supplied, call, result>>
vars == <<rssiVars, mainVars, netVars>>

-----------------------------------------------------------------------------
(* Bounds *)

MaxDist == 2100    \* largest distance tried, in half metres (1050 m)
MaxRecs == 3       \* most records in an input file
MaxIter == 4       \* most iterations of the chunk loop that are followed
MaxRuns == 2       \* runs of main() into the same directory
MaxNets == 2       \* longest list handed to the Networks constructor

-----------------------------------------------------------------------------
(* Helpers shared by the components *)

Abs(x) == IF x < 0 THEN -x ELSE x

Min2(a, b) == IF a < b THEN a ELSE b

Max2(a, b) == IF a > b THEN a ELSE b

\* All sequences over S of length at most n.
SeqsUpTo(S, n) == UNION {[1..k -> S] : k \in 0..n}

\* How often x occurs in the sequence s.
Count(s, x) == Cardinality({k \in DOMAIN s : s[k] = x})

\* A Python slice s[a:b] of a list (0-based, end exclusive): a negative index
\* counts from the end, and both ends are clamped to the list.
PyIndex(n, a) == IF a < 0 THEN Max2(n + a, 0) ELSE Min2(a, n)

PySlice(s, a, b) ==
    LET lo == PyIndex(Len(s), a)
        hi == PyIndex(Len(s), b)
    IN  IF lo < hi THEN SubSeq(s, lo + 1, hi) ELSE <<>>

\* Python's list.sort(key=...) and sorted(key=...) are stable sorts; they are
\* modelled by insertion: an element goes behind every element it must not
\* precede, so equal keys keep their order.

\* sl_networks.sort(key=lambda sl_network: abs(sl_network["distance_xy"]))
sort_key(sl_network) == Abs(sl_network.distance_xy)

RECURSIVE InsertByDistance(_, _)
InsertByDistance(s, x) ==
    IF s = <<>> THEN <<x>>
    ELSE IF sort_key(x) < sort_key(Head(s))
         THEN <<x>> \o s
         ELSE <<Head(s)>> \o InsertByDistance(Tail(s), x)

RECURSIVE SortByDistance(_)
SortByDistance(s) ==
    IF s = <<>> THEN <<>>
    ELSE InsertByDistance(SortByDistance(SubSeq(s, 1, Len(s) - 1)), s[Len(s)])

\* sorted(nets, key=lambda x: (x.rssi), reverse=True)
RECURSIVE InsertByRssi(_, _)
InsertByRssi(s, x) ==
    IF s = <<>> THEN <<x>>
    ELSE IF x.rssi > Head(s).rssi
         THEN <<x>> \o s
         ELSE <<Head(s)>> \o InsertByRssi(Tail(s), x)

RECURSIVE SortByRssiDesc(_)
SortByRssiDesc(s) ==
    IF s = <<>> THEN <<>>
    ELSE InsertByRssi(SortByRssiDesc(SubSeq(s, 1, Len(s) - 1)), s[Len(s)])

-----------------------------------------------------------------------------
(* extras/wigle_to_skylift.py: geometry *)

HalfMetres(m) == 2 * m

\* geopy.distance.geodesic(p1, p2).m
geodesic(a, b) == Abs(a[1] - b[1]) + Abs(a[2] - b[2])

get_geo_distance(a, b) ==
    LET d == geodesic(a, b)
    IN  IF b[1] < a[1] \/ b[2] > a[2] THEN -d ELSE d

\* The step function of calc_geo_rssi on a distance m.
rssi_steps_inclusive(m) ==
    IF m > HalfMetres(1000) THEN -90
    ELSE IF m > HalfMetres(500) THEN -80
    ELSE IF m > HalfMetres(250) THEN -75
    ELSE IF m >= HalfMetres(125) THEN -65
    ELSE IF m > HalfMetres(50) THEN -55
    ELSE -50

rssi_steps(m) ==
    IF m > HalfMetres(1000) THEN -90
    ELSE IF m > HalfMetres(500) THEN -80
    ELSE IF m > HalfMetres(250) THEN -75
    ELSE IF m > HalfMetres(125) THEN -65
    ELSE IF m > HalfMetres(50) THEN -55
    ELSE -50

calc_geo_rssi(a, b) == rssi_steps(geodesic(a, b))

-----------------------------------------------------------------------------
(* extras/wigle_to_skylift.py: the values main() works on *)

\* Command-line words.  int() and float() accept the numerals and raise
\* ValueError on anything else.
Numerals == {"-1", "0", "1", "2", "3"}

py_int(s) ==
    CASE s = "-1" -> -1
      [] s = "0"  -> 0
      [] s = "1"  -> 1
      [] s = "2"  -> 2
      [] s = "3"  -> 3

\* float() of a coordinate word, as a position on the grid.
py_float(s) == HalfMetres(py_int(s))

\* sys.argv; sys.argv[k] is argv[k + 1].
sys_argv(k) == argv[k + 1]

LatWords == {"0", "1", "x"}
LonWords == {"0", "x"}
PerFileWords == Numerals \cup {"x"}

ArgvSet ==
    {<<"prog", "in.json", "out", "0">>}
    \cup {<<"prog", "in.json", "out", la, lo>> : la \in LatWords, lo \in LonWords}
    \cup {<<"prog", "in.json", "out", la, lo, k>> :
            la \in LatWords, lo \in LonWords, k \in PerFileWords}
    \cup {<<"prog", "in.json", "out", "0", "0", "2", "extra">>}

\* The records of a WiGLE response.  Channel, qos and ssid are passed through
\* unread, so one value each is enough.
RawFields == {"netid", "channel", "trilat", "trilong", "qos", "ssid"}

RawRecord(id, lat, lon) ==
    [netid |-> id, channel |-> 6, trilat |-> lat, trilong |-> lon,
     qos |-> 0, ssid |-> "net"]

\* Two records at the same distance on opposite sides of the target, one
\* nearer and one farther, and one record that lacks a field.
RawPool ==
    {RawRecord(1, 100, 0), RawRecord(2, -100, 0), RawRecord(3, 0, 60),
     RawRecord(4, 300, -300),
     [netid |-> 5, channel |-> 6, trilat |-> 0, trilong |-> 0, ssid |-> "net"]}

NoData == [other |-> <<>>]

\* The input file: whether open() and json.load() succeed, and the document.
InFiles ==
    {[loads |-> FALSE, json |-> NoData], [loads |-> TRUE, json |-> NoData]}
    \cup {[loads |-> TRUE, json |-> [results |-> r]] :
            r \in SeqsUpTo(RawPool, MaxRecs)}

\* datetime.date.today()
Dates == {[y |-> 2024, m |-> 12, d |-> 31], [y |-> 2025, m |-> 1, d |-> 1]}

\* int(date.strftime("%Y%m%d"))
yyyymmdd(date) == date.y * 10000 + date.m * 100 + date.d

NoMeta ==
    [comment |-> "", filepath |-> "", lat |-> 0, lon |-> 0, radius |-> 0,
     run |-> 0, since |-> 0, type |-> ""]

\* The output directory: whether it exists, and its files by name.
FileName(k) == <<"skylift_", k, ".json">>

NoFiles == [n \in {} |-> NoMeta]

StaleFile == [meta |-> NoMeta, networks |-> <<>>]

NoDir == [exists |-> FALSE, files |-> NoFiles]

OutDirs ==
    {NoDir,
     [exists |-> TRUE, files |-> NoFiles],
     [exists |-> TRUE,
      files |-> [n \in {FileName(k) : k \in 1..(MaxRecs + 1)}
                       \cup {<<"notes", 0, ".txt">>} |-> StaleFile]]}

\* One converted network (the body of the for loop).
sl_network_of(network, tlat, tlong) ==
    LET net_lat  == network.trilat
        net_long == network.trilong
        p_network == <<net_lat, net_long>>
        p_target  == <<tlat, tlong>>
    IN  [bssid       |-> network.netid,
         channel     |-> network.channel,
         distance_x  |-> get_geo_distance(p_target, <<tlat, net_long>>),
         distance_xy |-> get_geo_distance(p_target, p_network),
         distance_y  |-> get_geo_distance(p_target, <<net_lat, tlong>>),
         lat         |-> net_lat,
         lon         |-> net_long,
         qos         |-> network.qos,
         rssi        |-> calc_geo_rssi(p_network, p_target),
         ssid        |-> network.ssid]

\* shutil.rmtree(out_dir), FileNotFoundError ignored, then os.makedirs.
empty_out_dir_keeping(dir) == [exists |-> TRUE, files |-> dir.files]

empty_out_dir(dir) == [exists |-> TRUE, files |-> NoFiles]

\* The size of the next chunk.
nets_to_do_swapped(n, done, per_file) ==
    IF n - done < per_file THEN per_file ELSE n - done

nets_to_do(n, done, per_file) ==
    IF n - done < per_file THEN n - done ELSE per_file

-----------------------------------------------------------------------------
(* extras/wigle_to_skylift.py: main() *)

MainLocalsReset ==
    /\ target_lat = 0
    /\ target_long = 0
    /\ nets_per_of = 0
    /\ data = NoData
    /\ sl_meta = NoMeta
    /\ sl_networks = <<>>
    /\ n_nets = 0
    /\ i = 0
    /\ c = 0
    /\ clears = 0
    /\ written = NoFiles

MainIdle ==
    /\ argv = <<>>
    /\ infile = [loads |-> FALSE, json |-> NoData]
    /\ today = [y |-> 0, m |-> 0, d |-> 0]
    /\ fs = NoDir
    /\ fs0 = NoDir
    /\ prev = NoDir
    /\ runs = 0
    /\ pc = "idle"
    /\ MainLocalsReset

InitMain ==
    /\ argv \in ArgvSet
    /\ infile \in InFiles
    /\ today \in Dates
    /\ fs \in OutDirs
    /\ fs0 = fs
    /\ prev = NoDir
    /\ runs = 1
    /\ pc = "start"
    /\ MainLocalsReset

inputs == <<argv, infile, today>>
history == <<fs0, clears, written, runs, prev>>

\* Lines 44-46: the argument count.
CheckArgs ==
    /\ pc = "start"
    /\ pc' = IF Len(argv) < 5 \/ Len(argv) > 6 THEN "usage" ELSE "parse"
    /\ UNCHANGED <<rssiVars, netVars, inputs, fs, target_lat, target_long, nets_per_of, data,
                   sl_meta, sl_networks, n_nets, i, c, history>>

\* Lines 50-59: float() of the coordinates, then int() of the optional
\* sixth word with only IndexError caught.
ParseArgsLenient ==
    /\ pc = "parse"
    /\ IF sys_argv(3) \in Numerals /\ sys_argv(4) \in Numerals
       THEN /\ target_lat' = py_float(sys_argv(3))
            /\ target_long' = py_float(sys_argv(4))
            /\ nets_per_of' = IF Len(argv) > 5 /\ sys_argv(5) \in Numerals
                              THEN py_int(sys_argv(5))
                              ELSE 20
            /\ pc' = "load"
       ELSE /\ pc' = "error"
            /\ UNCHANGED <<target_lat, target_long, nets_per_of>>
    /\ UNCHANGED <<rssiVars, netVars, inputs, fs, data, sl_meta, sl_networks, n_nets, i, c,
                   history>>

ParseArgs ==
    /\ pc = "parse"
    /\ IF sys_argv(3) \notin Numerals
       THEN /\ pc' = "error"
            /\ UNCHANGED <<target_lat, target_long, nets_per_of>>
       ELSE IF sys_argv(4) \notin Numerals
       THEN /\ pc' = "error"
            /\ target_lat' = py_float(sys_argv(3))
            /\ UNCHANGED <<target_long, nets_per_of>>
       ELSE /\ target_lat' = py_float(sys_argv(3))
            /\ target_long' = py_float(sys_argv(4))
            /\ IF Len(argv) <= 5
               THEN nets_per_of' = 20 /\ pc' = "load"
               ELSE IF sys_argv(5) \in Numerals
               THEN nets_per_of' = py_int(sys_argv(5)) /\ pc' = "load"
               ELSE nets_per_of' = 20 /\ pc' = "error"
    /\ UNCHANGED <<rssiVars, netVars, inputs, fs, data, sl_meta, sl_networks, n_nets, i, c,
                   history>>

\* Lines 61-63: open, json.load, close.
LoadInputClearing ==
    /\ pc = "load"
    /\ fs' = empty_out_dir(fs)
    /\ clears' = clears + 1
    /\ IF infile.loads
       THEN data' = infile.json /\ pc' = "convert"
       ELSE data' = data /\ pc' = "error"
    /\ UNCHANGED <<rssiVars, netVars, inputs, target_lat, target_long, nets_per_of, sl_meta,
                   sl_networks, n_nets, i, c, fs0, written, runs, prev>>

LoadInput ==
    /\ pc = "load"
    /\ IF infile.loads
       THEN data' = infile.json /\ pc' = "convert"
       ELSE data' = data /\ pc' = "error"
    /\ UNCHANGED <<rssiVars, netVars, inputs, fs, target_lat, target_long, nets_per_of, sl_meta,
                   sl_networks, n_nets, i, c, history>>

\* Lines 67-103: the meta block, then one converted network per record; a
\* missing "results" or a missing field of a record raises KeyError.
Convert ==
    /\ pc = "convert"
    /\ sl_meta' = [comment |-> "", filepath |-> "", lat |-> target_lat,
                   lon |-> target_long, radius |-> 1, run |-> 1,
                   since |-> yyyymmdd(today), type |-> "wigle"]
    /\ IF /\ "results" \in DOMAIN data
          /\ \A k \in DOMAIN data.results :
                RawFields \subseteq DOMAIN data.results[k]
       THEN /\ sl_networks' =
                  [k \in DOMAIN data.results |->
                      sl_network_of(data.results[k], target_lat, target_long)]
            /\ pc' = "sort"
       ELSE /\ sl_networks' = sl_networks
            /\ pc' = "error"
    /\ UNCHANGED <<rssiVars, netVars, inputs, fs, target_lat, target_long, nets_per_of, data,
                   n_nets, i, c, history>>

\* Line 106.
sorted_networks_omitted(s) == s

sorted_networks(s) == SortByDistance(s)

SortNetworks ==
    /\ pc = "sort"
    /\ sl_networks' = sorted_networks(sl_networks)
    /\ pc' = "prepare"
    /\ UNCHANGED <<rssiVars, netVars, inputs, fs, target_lat, target_long, nets_per_of, data,
                   sl_meta, n_nets, i, c, history>>

\* Lines 111-120: empty the output directory, then set up the loop.
PrepareOutDir ==
    /\ pc = "prepare"
    /\ fs' = empty_out_dir(fs)
    /\ clears' = clears + 1
    /\ n_nets' = Len(sl_networks)
    /\ i' = 0
    /\ c' = 0
    /\ pc' = "loop"
    /\ UNCHANGED <<rssiVars, netVars, inputs, target_lat, target_long, nets_per_of, data, sl_meta,
                   sl_networks, fs0, written, runs, prev>>

\* Lines 121-141: one iteration of the while loop.  Iterations beyond
\* MaxIter are not followed.
WriteChunk ==
    /\ pc = "loop"
    /\ c < n_nets
    /\ i < MaxIter
    /\ IF n_nets - c = 0
       THEN /\ pc' = "done"
            /\ UNCHANGED <<fs, written, c, i>>
       ELSE LET todo == nets_to_do(n_nets, c, nets_per_of)
                sl_data == [meta |-> sl_meta,
                            networks |-> PySlice(sl_networks, c, c + todo)]
                fn_out == FileName(i + 1)
            IN  /\ fs' = [fs EXCEPT !.files = (fn_out :> sl_data) @@ @]
                /\ written' = (fn_out :> sl_data) @@ written
                /\ c' = c + todo
                /\ i' = i + 1
                /\ pc' = "loop"
    /\ UNCHANGED <<rssiVars, netVars, inputs, target_lat, target_long, nets_per_of, data, sl_meta,
                   sl_networks, n_nets, fs0, clears, runs, prev>>

\* Line 121: the loop condition fails and main() returns.
LoopExit ==
    /\ pc = "loop"
    /\ ~(c < n_nets)
    /\ pc' = "done"
    /\ UNCHANGED <<rssiVars, netVars, inputs, fs, target_lat, target_long, nets_per_of, data,
                   sl_meta, sl_networks, n_nets, i, c, history>>

\* The program is run again, with the same command line, input file and
\* date, into the directory the completed run left.
Rerun ==
    /\ pc = "done"
    /\ runs < MaxRuns
    /\ runs' = runs + 1
    /\ prev' = fs
    /\ fs0' = fs
    /\ pc' = "start"
    /\ target_lat' = 0
    /\ target_long' = 0
    /\ nets_per_of' = 0
    /\ data' = NoData
    /\ sl_meta' = NoMeta
    /\ sl_networks' = <<>>
    /\ n_nets' = 0
    /\ i' = 0
    /\ c' = 0
    /\ clears' = 0
    /\ written' = NoFiles
    /\ UNCHANGED <<rssiVars, netVars, inputs, fs>>

NextMain ==
    \/ CheckArgs
    \/ ParseArgs
    \/ LoadInput
    \/ Convert
    \/ SortNetworks
    \/ PrepareOutDir
    \/ WriteChunk
    \/ LoopExit
    \/ Rerun

-----------------------------------------------------------------------------
(* calc_geo_rssi as an operation: the estimate for a pair of points *)

RssiIdle ==
    /\ p1 = <<0, 0>>
    /\ p2 = <<0, 0>>
    /\ rssi = 0

\* The second point lies up to MaxDist north or west of the first.
RssiPoints == {<<a, 0>> : a \in 0..MaxDist} \cup {<<0, -a>> : a \in 0..MaxDist}

-----------------------------------------------------------------------------
(* src/models/network.py: the values of a Networks container *)

\* An optional argument: <<>> is None, <<v>> is the value v.
None == <<>>

\* Python's truth value of an optional integer: None and 0 are false.
Truthy(o) == o # None /\ o[1] # 0

Network(id, r) == [bssid |-> id, rssi |-> r]

\* Two networks of equal rssi and a weaker one.
NetPool == {Network(1, -50), Network(2, -90), Network(3, -50)}

WifiArgs ==
    {<<>>, <<Network(4, -70)>>, <<Network(4, -70), Network(5, -40)>>,
     <<Network(5, -40), Network(4, -70), Network(6, -70)>>}

BtArgs == {<<>>, <<Network(7, -80), Network(8, -60)>>}

\* meta.filepath as its characters, "/" being the separator; <<>> is no
\* filepath.  meta_given is false for meta=None.
MetaArgs ==
    {[meta_given |-> FALSE, filepath |-> <<>>, filename |-> <<>>],
     [meta_given |-> TRUE, filepath |-> <<"/", "a", "/", "c">>, filename |-> <<>>],
     [meta_given |-> TRUE, filepath |-> <<"/", "a", "/", "c">>, filename |-> <<"x">>]}

\* str.split('/')[-1]: what follows the last separator.
RECURSIVE last_segment(_)
last_segment(path) ==
    IF path = <<>> THEN <<>>
    ELSE IF path[Len(path)] = "/" THEN <<>>
    ELSE last_segment(SubSeq(path, 1, Len(path) - 1)) \o <<path[Len(path)]>>

RECURSIVE SeqMin(_)
SeqMin(s) == IF Len(s) = 1 THEN s[1] ELSE Min2(s[1], SeqMin(Tail(s)))

RECURSIVE SeqMax(_)
SeqMax(s) == IF Len(s) = 1 THEN s[1] ELSE Max2(s[1], SeqMax(Tail(s)))

RECURSIVE FilterRssi(_, _, _)
FilterRssi(nets, lo, hi) ==
    IF nets = <<>> THEN <<>>
    ELSE (IF Head(nets).rssi >= lo /\ Head(nets).rssi <= hi
          THEN <<Head(nets)>> ELSE <<>>) \o FilterRssi(Tail(nets), lo, hi)

\* sorted(..., reverse=True) of model_post_init.
sorted_by_rssi_ascending(s) ==
    LET d == SortByRssiDesc(s)
    IN  [k \in DOMAIN d |-> d[Len(d) + 1 - k]]

sorted_by_rssi(s) == SortByRssiDesc(s)

\* Lines 75-78: the list a device type selects.
selected_nets_networks_first(device_type) ==
    IF device_type = "wifi"
    THEN (IF networks # <<>> THEN networks ELSE wifi)
    ELSE bt

selected_nets(device_type) ==
    IF device_type = "wifi"
    THEN (IF wifi # <<>> THEN wifi ELSE networks)
    ELSE bt

get_networks(min_rssi, max_rssi, max_networks, device_type) ==
    LET nets == selected_nets(device_type)
    IN  IF nets = <<>> THEN <<>>
        ELSE LET rssis == [k \in DOMAIN nets |-> nets[k].rssi]
                 lo == IF Truthy(min_rssi) THEN min_rssi[1] ELSE SeqMin(rssis)
                 hi == IF Truthy(max_rssi) THEN max_rssi[1] ELSE SeqMax(rssis)
                 n  == IF Truthy(max_networks) THEN max_networks[1]
                                               ELSE Len(nets)
                 filtered_nets == FilterRssi(nets, lo, hi)
             IN  PySlice(filtered_nets, 0, n)

NoCall == [min_rssi |-> None, max_rssi |-> None, max_networks |-> None,
           device_type |-> ""]

MinArgs == {None, <<0>>, <<-60>>}
MaxArgs == {None, <<-60>>}
CountArgs == {None, <<0>>, <<1>>}

-----------------------------------------------------------------------------
(* src/models/network.py: Networks *)

NetIdle ==
    /\ npc = "idle"
    /\ meta = [meta_given |-> FALSE, filepath |-> <<>>]
    /\ networks = <<>>
    /\ filename = <<>>
    /\ n_wifi = 0
    /\ n_bt = 0
    /\ wifi = <<>>
    /\ bt = <<>>
    /\ supplied = [wifi_given |-> FALSE, wifi |-> <<>>, bt |-> <<>>]
    /\ call = NoCall
    /\ result = <<>>

\* The fields as the constructor's arguments (or the defaults) set them,
\* before model_post_init.
InitNet ==
    /\ npc = "fields"
    /\ \E m \in MetaArgs :
          /\ meta = [meta_given |-> m.meta_given, filepath |-> m.filepath]
          /\ filename = m.filename
    /\ networks \in SeqsUpTo(NetPool, MaxNets)
    /\ \E given \in BOOLEAN :
          /\ wifi \in (IF given THEN WifiArgs ELSE {<<>>})
          /\ bt \in BtArgs
          /\ supplied = [wifi_given |-> given, wifi |-> wifi, bt |-> bt]
    /\ \E n \in {0, 7} : n_wifi = n /\ n_bt = n
    /\ call = NoCall
    /\ result = <<>>
    /\ RssiIdle
    /\ MainIdle

\* Lines 56-71.
model_post_init ==
    /\ npc = "fields"
    /\ filename' = IF filename = <<>> /\ meta.meta_given /\ meta.filepath # <<>>
                   THEN last_segment(meta.filepath)
                   ELSE filename
    /\ LET adopted == IF networks # <<>> /\ wifi = <<>> THEN networks ELSE wifi
       IN  /\ wifi' = sorted_by_rssi(adopted)
           /\ bt' = sorted_by_rssi(bt)
    /\ n_wifi' = Len(wifi')
    /\ n_bt' = Len(bt')
    /\ npc' = "ready"
    /\ UNCHANGED <<rssiVars, mainVars, meta, networks, supplied, call, result>>

\* Lines 73-89: a call of get_networks, and its return value.
GetNetworks ==
    /\ npc \in {"ready", "mutated"}
    /\ call = NoCall
    /\ \E lo \in MinArgs, hi \in MaxArgs, n \in CountArgs,
          dev \in {"wifi", "bt"} :
          /\ call' = [min_rssi |-> lo, max_rssi |-> hi, max_networks |-> n,
                      device_type |-> dev]
          /\ result' = get_networks(lo, hi, n, dev)
    /\ UNCHANGED <<rssiVars, mainVars, npc, meta, networks, filename, n_wifi,
                   n_bt, wifi, bt, supplied>>

\* The caller is done with the returned list.
Return ==
    /\ call # NoCall
    /\ call' = NoCall
    /\ result' = <<>>
    /\ UNCHANGED <<rssiVars, mainVars, npc, meta, networks, filename, n_wifi,
                   n_bt, wifi, bt, supplied>>

\* A caller empties the wifi list in place after construction; the fields
\* are plain mutable attributes and model_post_init does not run again.
ClearWifi ==
    /\ npc = "ready"
    /\ call = NoCall
    /\ wifi' = <<>>
    /\ npc' = "mutated"
    /\ UNCHANGED <<rssiVars, mainVars, meta, networks, filename, n_wifi, n_bt,
                   bt, supplied, call, result>>

NextNet ==
    \/ model_post_init
    \/ GetNetworks
    \/ Return
    \/ ClearWifi

-----------------------------------------------------------------------------
(* Specifications *)

\* rssi = 0: nothing has been estimated yet (every estimate is negative).
InitRssi ==
    /\ p1 = <<0, 0>>
    /\ p2 \in RssiPoints
    /\ rssi = 0
    /\ MainIdle
    /\ NetIdle

Estimate ==
    /\ rssi = 0
    /\ rssi' = calc_geo_rssi(p1, p2)
    /\ UNCHANGED <<p1, p2, mainVars, netVars>>

NextRssi == Estimate

SpecRssi == InitRssi /\ [][NextRssi]_vars

InitMainSpec ==
    /\ InitMain
    /\ RssiIdle
    /\ NetIdle

SpecMain == InitMainSpec /\ [][NextMain]_vars

SpecNet == InitNet /\ [][NextNet]_vars

-----------------------------------------------------------------------------
(* Operators the properties are stated with *)

CeilDiv(n, k) == (n + k - 1) \div k

\* The networks of skylift_1.json .. skylift_n.json, one after the other.
RECURSIVE ConcatFiles(_, _)
ConcatFiles(files, n) ==
    IF n = 0 THEN <<>>
    ELSE ConcatFiles(files, n - 1) \o files[FileName(n)].networks

Range(s) == {s[k] : k \in DOMAIN s}

\* a and b hold the same records, each as often.
SameRecords(a, b) ==
    /\ Len(a) = Len(b)
    /\ \A x \in Range(a) \cup Range(b) : Count(a, x) = Count(b, x)

\* r is s with some elements left out.
RECURSIVE IsSubSeq(_, _)
IsSubSeq(r, s) ==
    IF r = <<>> THEN TRUE
    ELSE IF s = <<>> THEN FALSE
    ELSE IF Head(r) = Head(s) THEN IsSubSeq(Tail(r), Tail(s))
    ELSE IsSubSeq(r, Tail(s))

RssiDescending(s) ==
    \A j, k \in DOMAIN s : j < k => s[j].rssi >= s[k].rssi

DistanceAscending(s) ==
    \A j, k \in DOMAIN s :
        j < k => Abs(s[j].distance_xy) <= Abs(s[k].distance_xy)

\* The first n elements of s (all of s when it is shorter).
Prefix(s, n) == SubSeq(s, 1, Min2(n, Len(s)))

CoordsParse == sys_argv(3) \in Numerals /\ sys_argv(4) \in Numerals

-----------------------------------------------------------------------------
(* Chunking (SpecMain) *)

\* C1: when a run with chunk size K >= 1 over N records has returned, the
\* loop has written exactly ceil(N/K) files; every file but the last holds K
\* records and the last holds N - K*(files - 1) > 0; and at no moment of the
\* run has a file with zero records been written (none at all for N = 0).
C1_ChunkCountAndSizes ==
    nets_per_of >= 1 =>
        /\ \A f \in DOMAIN written : Len(written[f].networks) > 0
        /\ pc = "done" =>
              /\ i = CeilDiv(n_nets, nets_per_of)
              /\ Cardinality(DOMAIN written) = i
              /\ \A k \in 1..i :
                    /\ FileName(k) \in DOMAIN written
                    /\ Len(written[FileName(k)].networks) =
                          IF k < i THEN nets_per_of
                                   ELSE n_nets - nets_per_of * (i - 1)
              /\ n_nets = 0 => written = NoFiles

\* Three records in chunks of two: a full file and a last file of one.
C1_Witness ==
    /\ pc = "done"
    /\ n_nets = 3
    /\ nets_per_of = 2
    /\ i = 2
    /\ Len(written[FileName(2)].networks) = 1

\* C2: when a run with chunk size K >= 1 has returned, the directory holds
\* skylift_1.json .. skylift_n.json and nothing else, file i holds positions
\* (i-1)*K .. min(i*K, N)-1 of the converted list, and the files' networks
\* in index order are every input record once, closest first.
C2_ChunkContentsAndOrder ==
    (pc = "done" /\ nets_per_of >= 1) =>
        LET all == ConcatFiles(fs.files, i)
            converted == [k \in DOMAIN data.results |->
                            sl_network_of(data.results[k], target_lat,
                                          target_long)]
        IN  /\ DOMAIN fs.files = {FileName(k) : k \in 1..i}
            /\ \A k \in 1..i :
                  fs.files[FileName(k)].networks =
                      SubSeq(sl_networks, (k - 1) * nets_per_of + 1,
                             Min2(k * nets_per_of, n_nets))
            /\ all = sl_networks
            /\ SameRecords(all, converted)
            /\ DistanceAscending(all)

\* Three records given farthest first, two of them equally far, in two files.
C2_Witness ==
    /\ pc = "done"
    /\ nets_per_of = 2
    /\ i = 2
    /\ Len(data.results) = 3
    /\ data.results[1].netid = 4
    /\ data.results[2].netid = 2
    /\ data.results[3].netid = 1
    /\ fs.files[FileName(2)].networks[1].bssid = 4

\* C3: when a run has returned, the directory exists and holds exactly the
\* files this run wrote, whatever it held before; and a second run with the
\* same command line, input and date leaves it as the first run left it.
C3_FreshRunIdempotence ==
    pc = "done" =>
        /\ fs.exists
        /\ fs.files = written
        /\ runs >= 2 => fs = prev

\* The second run has returned and left files behind.
C3_Witness ==
    /\ pc = "done"
    /\ runs = 2
    /\ Cardinality(DOMAIN fs.files) = 2
    /\ fs = prev

-----------------------------------------------------------------------------
(* Command line (SpecMain) *)

\* C8, as claimed: with the sixth word omitted or not an integer the run
\* goes on with a chunk size of 20; with an integer it goes on with that.
C8_AsClaimed ==
    [][(pc = "parse" /\ CoordsParse) =>
          /\ pc' = "load"
          /\ nets_per_of' = IF Len(argv) = 6 /\ sys_argv(5) \in Numerals
                            THEN py_int(sys_argv(5))
                            ELSE 20]_vars

\* C8, amended: with the sixth word omitted the run goes on with a chunk
\* size of 20, with an integer it goes on with that integer, and with a word
\* that is not an integer the run ends with an error there, the output
\* directory untouched.
C8_ChunkSizeArgument ==
    [][(pc = "parse" /\ CoordsParse) =>
          /\ Len(argv) = 5 => (pc' = "load" /\ nets_per_of' = 20)
          /\ (Len(argv) = 6 /\ sys_argv(5) \in Numerals) =>
                (pc' = "load" /\ nets_per_of' = py_int(sys_argv(5)))
          /\ (Len(argv) = 6 /\ sys_argv(5) \notin Numerals) =>
                (pc' = "error" /\ fs' = fs)]_vars

\* The run has ended on a sixth word that is not an integer.
C8_Witness ==
    /\ pc = "error"
    /\ Len(argv) = 6
    /\ CoordsParse
    /\ sys_argv(5) = "x"

\* C9: on every iteration of the chunk loop the count c of records
\* processed grows, whatever integer chunk size the command line gave (so
\* the loop ends after at most N writes).
C9_LoopProgress ==
    [][(pc = "loop" /\ i' = i + 1) => c' > c]_vars

\* C10: the directory is emptied at most once in a run, and only once the
\* arguments are checked and parsed, the input is loaded and every record is
\* converted and sorted; up to then, and in a run that ended with a usage
\* error or an error, it is as the run found it; and files are written only
\* after it was emptied.
C10_DestructiveStepOrder ==
    /\ clears <= 1
    /\ clears = 1 <=> pc \in {"loop", "done"}
    /\ pc \notin {"loop", "done"} => (fs = fs0 /\ written = NoFiles)
    /\ clears = 1 =>
          /\ Len(argv) \in {5, 6}
          /\ CoordsParse
          /\ "results" \in DOMAIN data
          /\ Len(sl_networks) = Len(data.results)
          /\ DistanceAscending(sl_networks)

\* A run over an input with a record that lacks a field has ended with an
\* error, the earlier files still in place.
C10_Witness ==
    /\ pc = "error"
    /\ "results" \in DOMAIN data
    /\ fs0.files # NoFiles
    /\ fs = fs0

-----------------------------------------------------------------------------
(* RSSI estimate (SpecRssi) *)

\* C7: the estimate for two points d metres apart is -90 for d > 1000, -80
\* for 500 < d <= 1000, -75 for 250 < d <= 500, -65 for 125 < d <= 250, -55
\* for 50 < d <= 125 and -50 for d <= 50, and no nearer point gets a lower
\* estimate.
C7_RssiStepFunction ==
    rssi # 0 =>
        LET d == geodesic(p1, p2)
        IN  /\ d > HalfMetres(1000) => rssi = -90
            /\ (HalfMetres(500) < d /\ d <= HalfMetres(1000)) => rssi = -80
            /\ (HalfMetres(250) < d /\ d <= HalfMetres(500)) => rssi = -75
            /\ (HalfMetres(125) < d /\ d <= HalfMetres(250)) => rssi = -65
            /\ (HalfMetres(50) < d /\ d <= HalfMetres(125)) => rssi = -55
            /\ d <= HalfMetres(50) => rssi = -50
            /\ \A a \in 0..d : calc_geo_rssi(p1, <<a, 0>>) >= rssi

\* Exactly 1000 m apart: the estimate is -80.
C7_Witness ==
    /\ geodesic(p1, p2) = HalfMetres(1000)
    /\ rssi = -80

-----------------------------------------------------------------------------
(* Networks (SpecNet) *)

\* The list the device type names.
NamedList(device_type) == IF device_type = "wifi" THEN wifi ELSE bt

\* C4: on a non-empty selected list get_networks returns the records with
\* min_rssi <= rssi <= max_rssi in the list's order, cut to the first
\* max_networks, for every supplied value, 0 included; a bound not supplied
\* is the list's least / greatest rssi, a count not supplied is no cut.
C4_FilterAsClaimed ==
    (call # NoCall /\ NamedList(call.device_type) # <<>>) =>
        LET nets == NamedList(call.device_type)
            rssis == [k \in DOMAIN nets |-> nets[k].rssi]
            lo == IF call.min_rssi # None THEN call.min_rssi[1]
                                          ELSE SeqMin(rssis)
            hi == IF call.max_rssi # None THEN call.max_rssi[1]
                                          ELSE SeqMax(rssis)
            kept == FilterRssi(nets, lo, hi)
        IN  result = IF call.max_networks # None
                     THEN Prefix(kept, call.max_networks[1])
                     ELSE kept

\* C5, as claimed: 'wifi' draws only from the wifi list and 'bt' only from
\* the bt list, and the result is empty whenever that list is empty.
C5_AsClaimed ==
    call # NoCall =>
        /\ IsSubSeq(result, NamedList(call.device_type))
        /\ NamedList(call.device_type) = <<>> => result = <<>>

\* C5, amended: 'bt' draws only from the bt list; 'wifi' draws from the
\* wifi list when it is not empty and from the generic networks list when
\* it is; the result is empty whenever the list drawn from is empty.
C5_ListSelection ==
    call # NoCall =>
        LET drawn == IF call.device_type = "bt" THEN bt
                     ELSE IF wifi # <<>> THEN wifi ELSE networks
        IN  /\ IsSubSeq(result, drawn)
            /\ drawn = <<>> => result = <<>>

\* The wifi list was emptied after construction and a 'wifi' query returns
\* records of the generic list.
C5_Witness ==
    /\ call # NoCall
    /\ call.device_type = "wifi"
    /\ wifi = <<>>
    /\ networks # <<>>
    /\ result # <<>>

\* The list model_post_init sorts into wifi, as claimed and as amended.
ClaimedWifiSource == IF supplied.wifi_given THEN supplied.wifi ELSE networks

AdoptedWifiSource ==
    IF networks # <<>> /\ supplied.wifi = <<>> THEN networks ELSE supplied.wifi

\* C6, as claimed: after construction wifi and bt are in descending order of
\* rssi, the counts are the lists' lengths, and wifi holds the records of
\* networks exactly when no wifi list was supplied.
C6_AsClaimed ==
    npc = "ready" =>
        /\ RssiDescending(wifi) /\ RssiDescending(bt)
        /\ n_wifi = Len(wifi) /\ n_bt = Len(bt)
        /\ SameRecords(bt, supplied.bt)
        /\ SameRecords(wifi, ClaimedWifiSource)

\* C6, amended: after construction wifi and bt are in descending order of
\* rssi, the counts are the lists' lengths, and wifi holds the records of
\* networks exactly when networks is not empty and the wifi list is empty
\* (left out or supplied empty); a supplied non-empty wifi list is kept.
C6_Normalization ==
    npc = "ready" =>
        /\ RssiDescending(wifi) /\ RssiDescending(bt)
        /\ n_wifi = Len(wifi) /\ n_bt = Len(bt)
        /\ SameRecords(bt, supplied.bt)
        /\ SameRecords(wifi, AdoptedWifiSource)

\* An empty wifi list was supplied with two networks given weakest first and
\* stale counts; they were adopted and sorted.
C6_Witness ==
    /\ npc = "ready"
    /\ supplied.wifi_given
    /\ supplied.wifi = <<>>
    /\ Len(networks) = 2
    /\ networks[1].rssi < networks[2].rssi
    /\ wifi = <<networks[2], networks[1]>>
    /\ n_wifi = 2

=============================================================================
